---- MODULE Spec2Model ----
(***************************************************************************)
(* Rummikub tile placement (m1dnight/rummikub): run extension, splitting,  *)
(* compression, single-tile placement, ordered placement and the           *)
(* permutation search of src/src/mutations.rs over the data model of       *)
(* src/src/structures.rs.                                                  *)
(*                                                                         *)
(* Values are u8 in the source.  Every tile value of the model is >= 1 and *)
(* every value stays far below 255, so no u8 operation of the source       *)
(* (tile.value - 1, tile.value + 1, run.end + 1, end - start + 1) wraps or *)
(* panics on the inputs of the model.                                      *)
(***************************************************************************)
EXTENDS Integers, Sequences, FiniteSets, TLC

\* ---------------------------------------------------------------- bounds
\* largest value of a generated hand tile; generated board runs end below it
MaxVal == 5
\* largest number of runs on a generated board
MaxRuns == 1
\* largest number of tiles in a generated hand
MaxTiles == 3
\* largest number of runs in a generated compress_runs input
MaxCompressRuns == 3
\* largest value in a generated compress_runs input
MaxCompressVal == 3
\* largest end value of a generated split_run input
MaxSplitVal == 6

\* ------------------------------------------------------------ data model
Colors == {"Blue", "Red", "Orange", "Black"}

\* `color as u8`: the discriminant of the enum, in declaration order
ColorU8(c) ==
  CASE c = "Blue" -> 0 [] c = "Red" -> 1 [] c = "Orange" -> 2 [] c = "Black" -> 3

Tile(c, v) == [color |-> c, value |-> v]

Run(s, e, c) == [start |-> s, end |-> e, color |-> c]

Group(v, cs) == [value |-> v, colors |-> cs]

Board(gs, rs) == [groups |-> gs, runs |-> rs]

\* Option<T>: None is the empty sequence, Some(x) the one-element sequence
None == <<>>

Some(x) == <<x>>

IsSome(o) == o # None

Unwrap(o) == o[1]

\* Run::valid
RunValid(run) == run.start < run.end /\ run.end - run.start >= 2

\* Group::valid: every color is inserted into the set for the first time
GroupValid(group) ==
  \A i \in 1..Len(group.colors) :
    \A j \in 1..(i - 1) : group.colors[j] # group.colors[i]

\* Board::valid
BoardValid(b) ==
  /\ \A i \in 1..Len(b.groups) : GroupValid(b.groups[i])
  /\ \A i \in 1..Len(b.runs) : RunValid(b.runs[i])

\* -------------------------------------------------------- run extension
extend_run_tail(run, tile) ==
  IF run.color = tile.color /\ run.end = tile.value - 1
  THEN Some(Run(run.start, tile.value, run.color))
  ELSE None

extend_run_head(run, tile) ==
  IF run.color = tile.color /\ run.start = tile.value + 1
  THEN Some(Run(tile.value, run.end, run.color))
  ELSE None

\* match first { Some(x) => Some(x), None => second }
OrElse(first, second) == IF IsSome(first) THEN first ELSE second

extend_run(run, tile) ==
  OrElse(extend_run_head(run, tile), extend_run_tail(run, tile))

\* -------------------------------------------------------- run splitting
RECURSIVE Pow2(_)
Pow2(n) == IF n <= 0 THEN 1 ELSE 2 * Pow2(n - 1)

\* (split_mask & (1 << i)) != 0
BitSet(mask, i) == (mask \div Pow2(i)) % 2 = 1

\* mutant: the next sub-run starts on the value the previous one ends on
NextStartOnCut(current_end) == current_end

\* current_start = current_end + 1 after a cut
NextStart(current_end) == current_end + 1

\* the inner loop `for i in 0..(run_length - 1)` of split_run for one mask,
\* followed by the push of the final segment
RECURSIVE SplitForMask(_, _, _, _, _)
SplitForMask(run, mask, i, current_start, current_split) ==
  IF i >= (run.end - run.start + 1) - 1
  THEN Append(current_split, Run(current_start, run.end, run.color))
  ELSE IF BitSet(mask, i)
       THEN SplitForMask(run, mask, i + 1, NextStart(run.start + i),
                         Append(current_split,
                                Run(current_start, run.start + i, run.color)))
       ELSE SplitForMask(run, mask, i + 1, current_start, current_split)

\* mutant: the range of masks taken as inclusive, `1..=(1 << (run_length - 1))`
MaskLimitInclusive(run) == Pow2((run.end - run.start + 1) - 1) + 1

\* the exclusive upper end of `1..(1 << (run_length - 1))`
MaskLimit(run) == Pow2((run.end - run.start + 1) - 1)

\* split_run: one partition per mask, in mask order
split_run(run) ==
  [m \in 1..(MaskLimit(run) - 1) |-> SplitForMask(run, m, 0, run.start, <<>>)]

\* ------------------------------------------------------ run compression
\* the comparator of sort_by returns Less: by color as u8, then by start
RunLess(a, b) ==
  IF ColorU8(a.color) = ColorU8(b.color)
  THEN a.start < b.start
  ELSE ColorU8(a.color) < ColorU8(b.color)

\* the least element of a set of positions, 0 for the empty set
FirstIn(S) == IF S = {} THEN 0 ELSE CHOOSE i \in S : \A j \in S : i <= j

\* Vec::remove(index), with 1-based positions
RemoveAt(s, i) == SubSeq(s, 1, i - 1) \o SubSeq(s, i + 1, Len(s))

\* Vec::insert(index, x), with 1-based positions
InsertAt(s, i, x) == SubSeq(s, 1, i - 1) \o <<x>> \o SubSeq(s, i, Len(s))

\* stable insertion: x goes before the first element that is greater, or last
InsertBefore(sorted, pos, x) ==
  IF pos = 0 THEN Append(sorted, x) ELSE InsertAt(sorted, pos, x)

SortInsert(sorted, x) ==
  InsertBefore(sorted,
               FirstIn({i \in 1..Len(sorted) : RunLess(x, sorted[i])}), x)

\* sorted_runs.sort_by(..): a stable sort of the runs
RECURSIVE SortRuns(_)
SortRuns(runs) ==
  IF runs = <<>> THEN <<>>
  ELSE SortInsert(SortRuns(SubSeq(runs, 1, Len(runs) - 1)), runs[Len(runs)])

\* the merge test of compress_runs
CanMerge(current_run, run) ==
  run.color = current_run.color /\ run.start = current_run.end + 1

\* the loop `for run in sorted_runs.iter().skip(1)` and the final push
RECURSIVE CompressLoop(_, _, _, _)
CompressLoop(sorted_runs, i, current_run, compressed) ==
  IF i > Len(sorted_runs)
  THEN Append(compressed, current_run)
  ELSE IF CanMerge(current_run, sorted_runs[i])
       THEN CompressLoop(sorted_runs, i + 1,
                         [current_run EXCEPT !.end = sorted_runs[i].end],
                         compressed)
       ELSE CompressLoop(sorted_runs, i + 1, sorted_runs[i],
                         Append(compressed, current_run))

\* compress_runs once the runs are sorted: current_run = sorted_runs[0]
CompressSorted(sorted_runs) ==
  CompressLoop(sorted_runs, 2, sorted_runs[1], <<>>)

compress_runs(runs) ==
  IF runs = <<>> THEN <<>> ELSE CompressSorted(SortRuns(runs))

\* -------------------------------------------------- single-tile placement
\* position of the first run of `runs` that extend_run can extend, 0 if none
FirstExtendable(runs, tile) ==
  FirstIn({i \in 1..Len(runs) : IsSome(extend_run(runs[i], tile))})

\* new_board.runs[index] = extended_run; return Some(new_board)
ExtendAt(board, tile, index) ==
  IF index = 0 THEN None
  ELSE Some([board EXCEPT
               !.runs[index] = Unwrap(extend_run(board.runs[index], tile))])

\* first loop of place_tile: extend the first extendable run in place
DirectExtension(board, tile) ==
  ExtendAt(board, tile, FirstExtendable(board.runs, tile))

\* the loop that inserts the sub-runs of split_combination at run_index + i,
\* the one at split_index replaced by extended_split
RECURSIVE InsertSplit(_, _, _, _, _, _)
InsertSplit(runs, run_index, split_combination, split_index, extended_split, i) ==
  IF i > Len(split_combination) THEN runs
  ELSE InsertSplit(
         InsertAt(runs, run_index + (i - 1),
                  IF i = split_index THEN extended_split
                  ELSE split_combination[i]),
         run_index, split_combination, split_index, extended_split, i + 1)

\* the board built when sub-run split_index of split_combination is extended
SplitBoard(board, run_index, split_combination, split_index, tile) ==
  [board EXCEPT !.runs =
     InsertSplit(RemoveAt(board.runs, run_index), run_index, split_combination,
                 split_index,
                 Unwrap(extend_run(split_combination[split_index], tile)), 1)]

\* the split board for split combination m of all_splits, None when m = 0
SplitAt(board, run_index, tile, all_splits, m) ==
  IF m = 0 THEN None
  ELSE Some(SplitBoard(board, run_index, all_splits[m],
                       FirstExtendable(all_splits[m], tile), tile))

\* the loop over all_splits for one run: the first split combination that has
\* an extendable sub-run
SplitWith(board, run_index, tile, all_splits) ==
  SplitAt(board, run_index, tile, all_splits,
          FirstIn({m \in DOMAIN all_splits :
                     FirstExtendable(all_splits[m], tile) # 0}))

SplitExtension(board, run_index, tile) ==
  SplitWith(board, run_index, tile, split_run(board.runs[run_index]))

\* mutant: place_tile without its second loop
NoSplitPhase(board, run_index, tile) == None

\* second loop of place_tile: the first run that has such a split
RECURSIVE SplitPhase(_, _, _)
SplitPhase(board, run_index, tile) ==
  IF run_index > Len(board.runs) THEN None
  ELSE OrElse(SplitExtension(board, run_index, tile),
              SplitPhase(board, run_index + 1, tile))

\* mutant: place_tile without its first loop
SplitOnlyPlaceTile(board, tile) == SplitPhase(board, 1, tile)

place_tile(board, tile) ==
  OrElse(DirectExtension(board, tile), SplitPhase(board, 1, tile))

\* -------------------------------------------------- ordered placement
\* mutant: the recursion gets every other tile, the skipped ones included
RemainingWithRetry(tiles, index) ==
  SubSeq(tiles, 1, index - 1) \o SubSeq(tiles, index + 1, Len(tiles))

\* &tiles[index + 1..], with 1-based index
RemainingTiles(tiles, index) == SubSeq(tiles, index + 1, Len(tiles))

\* placed_tiles.push(*tile); placed_tiles.append(&mut sub_placed_tiles);
\* modified_board = final_board
PushPlaced(tile, sub) == <<sub[1], <<tile>> \o sub[2]>>

RECURSIVE place_tiles(_, _)
RECURSIVE PlaceTilesLoop(_, _, _)
RECURSIVE PlaceMatch(_, _, _, _)
\* `match place_tile(&modified_board, tile)` at position index
PlaceMatch(board, tiles, index, new_board) ==
  IF IsSome(new_board)
  THEN PushPlaced(tiles[index],
                  place_tiles(Unwrap(new_board), RemainingTiles(tiles, index)))
  ELSE PlaceTilesLoop(board, tiles, index + 1)

\* the loop `for (index, tile) in tiles.iter().enumerate()` from `index` on:
\* modified_board is still the board and placed_tiles is still empty
PlaceTilesLoop(board, tiles, index) ==
  IF index > Len(tiles) THEN <<board, <<>>>>
  ELSE PlaceMatch(board, tiles, index, place_tile(board, tiles[index]))

\* returns <<board, placed tiles>>
place_tiles(board, tiles) == PlaceTilesLoop(board, tiles, 1)

\* ------------------------------------------------- permutation search
RECURSIVE Flatten(_)
Flatten(ss) == IF ss = <<>> THEN <<>> ELSE Head(ss) \o Flatten(Tail(ss))

\* the permutations `rest`, each with position x put in front
PrefixAll(x, rest) == [j \in 1..Len(rest) |-> <<x>> \o rest[j]]

\* Itertools::permutations(n) of n positions: every order of the positions
\* `avail`, in lexicographic order of the positions (one empty permutation
\* when there is no position)
RECURSIVE IndexPermutations(_)
IndexPermutations(avail) ==
  IF avail = <<>> THEN << <<>> >>
  ELSE Flatten([k \in 1..Len(avail) |->
                  PrefixAll(avail[k], IndexPermutations(RemoveAt(avail, k)))])

\* s.contains(x)
Contains(s, x) == \E i \in 1..Len(s) : s[i] = x

\* Itertools::unique: an item is yielded unless it was yielded before
AppendNew(front, item) == IF Contains(front, item) THEN front ELSE Append(front, item)

RECURSIVE Unique(_)
Unique(items) ==
  IF items = <<>> THEN <<>>
  ELSE AppendNew(Unique(SubSeq(items, 1, Len(items) - 1)), items[Len(items)])

\* the tiles at the positions of each index permutation, as Vec<Tile>
PermTiles(tiles, idx) ==
  [p \in 1..Len(idx) |-> [j \in 1..Len(tiles) |-> tiles[idx[p][j]]]]

\* tiles.iter().permutations(tiles.len()).unique(), each collected to Vec<Tile>
UniquePermutations(tiles) ==
  Unique(PermTiles(tiles, IndexPermutations([i \in 1..Len(tiles) |-> i])))

\* tiles.iter().filter(|tile| !best_tiles.contains(tile)).cloned().collect()
RECURSIVE Unplaced(_, _)
Unplaced(tiles, best) ==
  IF tiles = <<>> THEN <<>>
  ELSE IF Contains(best, Head(tiles))
       THEN Unplaced(Tail(tiles), best)
       ELSE <<Head(tiles)>> \o Unplaced(Tail(tiles), best)

\* ----------------------------------------------------------------- state
VARIABLES
  board,        \* place_tiles_best: the board argument
  tiles,        \* place_tiles_best: the tiles argument
  perms,        \* the permutations the iterator has not yielded yet
  attempts,     \* (perm_tiles, attempt_board, placed_tiles) of each iteration so far
  best_board,   \* place_tiles_best: best_board
  best_tiles,   \* place_tiles_best: best_tiles
  pc,           \* "loop": at the loop head, "judge": place_tiles has returned,
                \* "done": place_tiles_best has returned
  result,       \* the returned Option<(Board, Vec<Tile>, Vec<Tile>)>
  p_board,      \* place_tiles: the board argument
  p_tiles,      \* place_tiles: the tiles argument
  p_out,        \* place_tiles: the returned (Board, Vec<Tile>), Option-wrapped
  c_runs,       \* compress_runs: the runs argument
  c_out,        \* compress_runs: the returned Vec<Run>, Option-wrapped
  s_run,        \* split_run: the run argument
  s_out         \* split_run: the returned Vec<Vec<Run>>, Option-wrapped

bestVars == <<board, tiles, perms, attempts, best_board, best_tiles, pc, result>>

seqVars == <<p_board, p_tiles, p_out>>

compressVars == <<c_runs, c_out>>

splitVars == <<s_run, s_out>>

vars == <<bestVars, seqVars, compressVars, splitVars>>

\* ---------------------------------------------------------------- inputs
\* sequences over S of length at most n
SeqUpTo(S, n) == UNION {[1..k -> S] : k \in 0..n}

\* runs start..end of the colors with 1 <= start <= end <= hi
RunsOf(colors, hi) ==
  {r \in {Run(s, e, c) : s \in 1..hi, e \in 1..hi, c \in colors} :
     r.start <= r.end}

\* main: test_board()
TestBoard == Board(<<>>, <<Run(2, 5, "Blue"), Run(6, 13, "Blue")>>)

\* main: tiles
MainTiles ==
  <<Tile("Blue", 3), Tile("Blue", 4), Tile("Black", 1), Tile("Blue", 2)>>

\* board runs: Blue runs of at least two values that end one or two below MaxVal
InputRuns ==
  {r \in RunsOf({"Blue"}, MaxVal - 1) : r.start < r.end /\ r.end >= MaxVal - 2}

\* one group list that is valid and one that repeats a color
InputGroups ==
  {<<Group(1, <<"Orange", "Blue", "Red">>)>>, <<Group(1, <<"Red", "Red">>)>>}

\* every board with a group list and at most one run, and the boards with the
\* valid group list and up to MaxRuns runs
InputBoards ==
  {Board(g, r) : g \in InputGroups, r \in SeqUpTo(InputRuns, 1)}
    \cup {Board(<<Group(1, <<"Orange", "Blue", "Red">>)>>, r) :
             r \in SeqUpTo(InputRuns, MaxRuns)}

\* hand tiles: the highest value of the board runs, the value above it, and a
\* tile no board run matches
InputTiles == {Tile("Blue", MaxVal - 1), Tile("Blue", MaxVal), Tile("Black", 1)}

InputHands == SeqUpTo(InputTiles, MaxTiles)

EmptyBoard == Board(<<>>, <<>>)

IdleBest ==
  /\ board = EmptyBoard /\ tiles = <<>> /\ perms = <<>> /\ attempts = <<>>
  /\ best_board = EmptyBoard /\ best_tiles = <<>>
  /\ pc = "idle" /\ result = None

IdleSeq == p_board = EmptyBoard /\ p_tiles = <<>> /\ p_out = None

IdleCompress == c_runs = <<>> /\ c_out = None

IdleSplit == s_run = Run(1, 1, "Blue") /\ s_out = None

\* ------------------------------------------------------ place_tiles_best
\* place_tiles_best is entered: best_board = board.clone(), best_tiles = vec![]
Init ==
  /\ \/ board \in InputBoards /\ tiles \in InputHands
     \/ board = TestBoard /\ tiles = MainTiles
  /\ perms = UniquePermutations(tiles)
  /\ attempts = <<>>
  /\ best_board = board
  /\ best_tiles = <<>>
  /\ pc = "loop"
  /\ result = None
  /\ IdleSeq /\ IdleCompress /\ IdleSplit

\* let (attempt_board, placed_tiles) = place_tiles(board, &perm_tiles)
Attempt(perm_tiles, r) ==
  [perm_tiles |-> perm_tiles, attempt_board |-> r[1], placed_tiles |-> r[2]]

\* the loop takes the next permutation and runs place_tiles on it
PlaceTiles ==
  /\ pc = "loop" /\ perms # <<>>
  /\ attempts' = Append(attempts,
                        Attempt(Head(perms), place_tiles(board, Head(perms))))
  /\ perms' = Tail(perms)
  /\ pc' = "judge"
  /\ UNCHANGED <<board, tiles, best_board, best_tiles, result>>
  /\ UNCHANGED <<seqVars, compressVars, splitVars>>

\* the attempt of the current iteration
Current == attempts[Len(attempts)]

\* mutant: != in place of >
ImprovesOrShrinks(placed, best) == Len(placed) # Len(best)

\* placed_tiles.iter().count() > best_tiles.len()
Improves(placed, best) == Len(placed) > Len(best)

\* mutant: the best pair is replaced without the validity check
ReplacesUnchecked == Improves(Current.placed_tiles, best_tiles)

\* the attempt replaces the best pair
Replaces == BoardValid(Current.attempt_board)
            /\ Improves(Current.placed_tiles, best_tiles)

NewBestBoard == IF Replaces THEN Current.attempt_board ELSE best_board

NewBestTiles == IF Replaces THEN Current.placed_tiles ELSE best_tiles

\* inside `if attempt_board.valid()`: best_tiles.iter().count() == tiles.len()
Returns == BoardValid(Current.attempt_board) /\ Len(NewBestTiles) = Len(tiles)

\* the rest of a loop iteration that goes on to the next permutation
JudgeContinue ==
  /\ pc = "judge"
  /\ ~Returns
  /\ best_board' = NewBestBoard
  /\ best_tiles' = NewBestTiles
  /\ pc' = "loop"
  /\ UNCHANGED <<board, tiles, perms, attempts, result>>
  /\ UNCHANGED <<seqVars, compressVars, splitVars>>

\* the rest of a loop iteration that has all tiles placed: compress, return
JudgeReturn ==
  /\ pc = "judge"
  /\ Returns
  /\ best_board' = [NewBestBoard EXCEPT !.runs = compress_runs(NewBestBoard.runs)]
  /\ best_tiles' = NewBestTiles
  /\ result' = Some(<<best_board', best_tiles', <<>>>>)
  /\ pc' = "done"
  /\ UNCHANGED <<board, tiles, perms, attempts>>
  /\ UNCHANGED <<seqVars, compressVars, splitVars>>

\* after the loop, some tiles were placed: compress, compute the unplaced tiles
FinishSome ==
  /\ pc = "loop" /\ perms = <<>>
  /\ best_tiles # <<>>
  /\ best_board' = [best_board EXCEPT !.runs = compress_runs(best_board.runs)]
  /\ result' = Some(<<best_board', best_tiles, Unplaced(tiles, best_tiles)>>)
  /\ pc' = "done"
  /\ UNCHANGED <<board, tiles, perms, attempts, best_tiles>>
  /\ UNCHANGED <<seqVars, compressVars, splitVars>>

\* after the loop, nothing was placed: None
FinishNone ==
  /\ pc = "loop" /\ perms = <<>>
  /\ best_tiles = <<>>
  /\ result' = None
  /\ pc' = "done"
  /\ UNCHANGED <<board, tiles, perms, attempts, best_board, best_tiles>>
  /\ UNCHANGED <<seqVars, compressVars, splitVars>>

Next == PlaceTiles \/ JudgeContinue \/ JudgeReturn \/ FinishSome \/ FinishNone

Spec == Init /\ [][Next]_vars

\* ----------------------------------------------------------- place_tiles
InitSeq ==
  /\ IdleBest /\ IdleCompress /\ IdleSplit
  /\ p_board \in InputBoards /\ p_tiles \in InputHands /\ p_out = None

ApplyPlaceTiles ==
  /\ p_out = None
  /\ p_out' = Some(place_tiles(p_board, p_tiles))
  /\ UNCHANGED <<p_board, p_tiles, bestVars, compressVars, splitVars>>

SpecSeq == InitSeq /\ [][ApplyPlaceTiles]_vars

\* --------------------------------------------------------- compress_runs
CompressInputs ==
  SeqUpTo(RunsOf({"Blue", "Red"}, MaxCompressVal), MaxCompressRuns)

InitCompress ==
  /\ IdleBest /\ IdleSeq /\ IdleSplit
  /\ c_runs \in CompressInputs /\ c_out = None

ApplyCompress ==
  /\ c_out = None
  /\ c_out' = Some(compress_runs(c_runs))
  /\ UNCHANGED <<c_runs, bestVars, seqVars, splitVars>>

SpecCompress == InitCompress /\ [][ApplyCompress]_vars

\* ------------------------------------------------------------- split_run
SplitInputs == RunsOf(Colors, MaxSplitVal)

InitSplit ==
  /\ IdleBest /\ IdleSeq /\ IdleCompress
  /\ s_run \in SplitInputs /\ s_out = None

ApplySplit ==
  /\ s_out = None
  /\ s_out' = Some(split_run(s_run))
  /\ UNCHANGED <<s_run, bestVars, seqVars, compressVars>>

SpecSplit == InitSplit /\ [][ApplySplit]_vars

\* ================================================================ claims
\* the parts of a returned Some((board, placed, unplaced))
Returned == pc = "done" /\ IsSome(result)

ResultBoard == Unwrap(result)[1]

ResultPlaced == Unwrap(result)[2]

ResultUnplaced == Unwrap(result)[3]

\* number of occurrences of x in the sequence s
Count(s, x) == Cardinality({i \in 1..Len(s) : s[i] = x})

Elems(s) == {s[i] : i \in 1..Len(s)}

\* a run of at least 3 values
AtLeastThree(run) == run.end - run.start >= 2

\* the colors of a group are pairwise distinct
DistinctColors(group) ==
  \A i, j \in 1..Len(group.colors) : i # j => group.colors[i] # group.colors[j]

\* C1: every board place_tiles_best returns is valid after run compression:
\* every run has end - start >= 2 and every group has pairwise distinct colors.
C1_ReturnedBoardValid ==
  Returned =>
    /\ \A i \in 1..Len(ResultBoard.runs) : AtLeastThree(ResultBoard.runs[i])
    /\ \A i \in 1..Len(ResultBoard.groups) : DistinctColors(ResultBoard.groups[i])

\* C1 witness: a result with placed tiles on a board that has runs and groups,
\* found although another attempt of the same search ended in an invalid board
C1_Witness ==
  /\ Returned
  /\ ResultPlaced # <<>>
  /\ ResultBoard.runs # <<>> /\ ResultBoard.groups # <<>>
  /\ \E k \in 1..Len(attempts) : ~BoardValid(attempts[k].attempt_board)

\* C2: whenever place_tiles_best returns, placed and unplaced together hold
\* every input tile exactly as often as the input does, and no tile is in both.
C2_UnplacedComplement ==
  Returned =>
    /\ \A t \in Elems(tiles) \cup Elems(ResultPlaced) \cup Elems(ResultUnplaced) :
         Count(ResultPlaced, t) + Count(ResultUnplaced, t) = Count(tiles, t)
    /\ Elems(ResultPlaced) \cap Elems(ResultUnplaced) = {}

\* the input of main: the board of test_board() and the four tiles
Scenario1 == board = TestBoard /\ tiles = MainTiles

BoardOut == Unwrap(p_out)[1]

PlacedOut == Unwrap(p_out)[2]

\* the board inside place_tiles after the first k placed tiles
RECURSIVE BoardAfter(_)
BoardAfter(k) ==
  IF k = 0 THEN p_board
  ELSE Unwrap(place_tile(BoardAfter(k - 1), PlacedOut[k]))

\* the tile continues an end of some run of the board
ExtendsAnEnd(b, tile) ==
  \E i \in 1..Len(b.runs) :
    /\ b.runs[i].color = tile.color
    /\ \/ tile.value = b.runs[i].end + 1
       \/ tile.value = b.runs[i].start - 1

NoShortRun(b) == \A i \in 1..Len(b.runs) : AtLeastThree(b.runs[i])

RECURSIVE FoldPlace(_, _, _, _)
FoldPlace(b, placed, ts, i) ==
  IF i > Len(ts) THEN <<b, placed>>
  ELSE IF IsSome(place_tile(b, ts[i]))
       THEN FoldPlace(Unwrap(place_tile(b, ts[i])), Append(placed, ts[i]), ts, i + 1)
       ELSE FoldPlace(b, placed, ts, i + 1)

\* sub is an in-order subsequence of s
IsSubsequence(sub, s) ==
  \E f \in [1..Len(sub) -> 1..Len(s)] :
    /\ \A i \in 1..Len(sub) : s[f[i]] = sub[i]
    /\ \A i, j \in 1..Len(sub) : i < j => f[i] < f[j]

\* C10: place_tiles equals the left-to-right fold that tries place_tile once per
\* tile, keeps the new board on success and the old one on failure; placed is
\* an in-order subsequence of the input; the empty list returns the board
\* unchanged with nothing placed.
C10_GreedyFold ==
  IsSome(p_out) =>
    /\ Unwrap(p_out) = FoldPlace(p_board, <<>>, p_tiles, 1)
    /\ IsSubsequence(PlacedOut, p_tiles)
    /\ p_tiles = <<>> => Unwrap(p_out) = <<p_board, <<>>>>

\* C10 witness: a tile was skipped, later tiles were placed, and the skipped
\* tile could be placed on the final board
C10_Witness ==
  /\ IsSome(p_out) /\ PlacedOut # <<>>
  /\ \E i \in 1..Len(p_tiles) :
       /\ Count(PlacedOut, p_tiles[i]) = 0
       /\ IsSome(place_tile(BoardOut, p_tiles[i]))

\* ------------------------------------------- claims on place_tiles_best
\* C5: for a valid board and a hand of which some tile continues an end of a
\* run, place_tiles_best returns a result with a non-empty placed list, and
\* with a non-empty unplaced list when not all tiles were placed.
C5_PartialSuccess ==
  (/\ pc = "done"
   /\ BoardValid(board)
   /\ \E i \in 1..Len(tiles) : ExtendsAnEnd(board, tiles[i])) =>
    /\ IsSome(result)
    /\ ResultPlaced # <<>>
    /\ Len(ResultPlaced) < Len(tiles) => ResultUnplaced # <<>>

\* C6: place_tiles_best returns None whenever no permutation places a tile, the
\* empty hand included, so every returned result has a non-empty placed list.
C6_NoneWhenNothingPlaced ==
  pc = "done" =>
    /\ (\A k \in 1..Len(attempts) : attempts[k].placed_tiles = <<>>)
         => result = None
    /\ IsSome(result) => ResultPlaced # <<>>

\* the positions of the valid attempts that placed most tiles
ValidAttempts ==
  {k \in 1..Len(attempts) : BoardValid(attempts[k].attempt_board)}

MaxValidCount ==
  IF ValidAttempts = {} THEN 0
  ELSE CHOOSE n \in {Len(attempts[k].placed_tiles) : k \in ValidAttempts} :
         \A k \in ValidAttempts : Len(attempts[k].placed_tiles) <= n

FirstBest ==
  FirstIn({k \in ValidAttempts : Len(attempts[k].placed_tiles) = MaxValidCount})

\* C9: at the head of every iteration the best pair is the initial one while no
\* valid attempt has placed a tile, and otherwise the first valid attempt with
\* the greatest placed count so far (so the best count never decreases and a
\* tie keeps the earlier attempt); the returned placed list is that of the
\* first valid attempt with the greatest count among the tried permutations,
\* and the returned board is its board, compressed.
C9_BestIsFirstMaximum ==
  /\ pc = "loop" =>
       /\ Len(best_tiles) = MaxValidCount
       /\ IF MaxValidCount = 0
          THEN best_tiles = <<>> /\ best_board = board
          ELSE /\ best_tiles = attempts[FirstBest].placed_tiles
               /\ best_board = attempts[FirstBest].attempt_board
  /\ Returned =>
       /\ Len(ResultPlaced) = MaxValidCount
       /\ ResultPlaced = attempts[FirstBest].placed_tiles
       /\ ResultBoard.groups = attempts[FirstBest].attempt_board.groups
       /\ ResultBoard.runs = compress_runs(attempts[FirstBest].attempt_board.runs)

\* C9 witness: a result whose attempt was followed by a valid attempt with
\* fewer tiles and by a valid attempt with as many tiles
C9_Witness ==
  /\ Returned /\ ResultPlaced # <<>>
  /\ \E k \in ValidAttempts :
       k > FirstBest /\ Len(attempts[k].placed_tiles) < MaxValidCount
                     /\ attempts[k].placed_tiles # <<>>
  /\ \E k \in ValidAttempts :
       k > FirstBest /\ Len(attempts[k].placed_tiles) = MaxValidCount

\* --------------------------------------------- claims on compress_runs
\* C7: the output of compress_runs has no two runs a, b of one color with
\* b.start = a.end + 1.
C7_NoMergeablePair ==
  IsSome(c_out) =>
    \A i, j \in 1..Len(Unwrap(c_out)) :
      i # j => ~(/\ Unwrap(c_out)[i].color = Unwrap(c_out)[j].color
                 /\ Unwrap(c_out)[j].start = Unwrap(c_out)[i].end + 1)

\* ------------------------------------------------- claims on split_run
SplitOut == Unwrap(s_out)

RunLength == s_run.end - s_run.start + 1

\* the sub-runs tile the run: same color, non-empty, first at run.start, last
\* at run.end, each next one starting right after the previous one
TilesTheRun(part) ==
  /\ Len(part) >= 1
  /\ \A k \in 1..Len(part) :
       part[k].color = s_run.color /\ part[k].start <= part[k].end
  /\ part[1].start = s_run.start
  /\ part[Len(part)].end = s_run.end
  /\ \A k \in 1..(Len(part) - 1) : part[k + 1].start = part[k].end + 1

\* C8: for a run of n >= 1 values split_run returns 2^(n-1) - 1 partitions,
\* pairwise distinct, none the unsplit run, each tiling the run.
C8_SplitExact ==
  IsSome(s_out) =>
    /\ Len(SplitOut) = Cardinality(SUBSET (1..(RunLength - 1))) - 1
    /\ \A i, j \in 1..Len(SplitOut) : i # j => SplitOut[i] # SplitOut[j]
    /\ \A i \in 1..Len(SplitOut) :
         SplitOut[i] # <<s_run>> /\ TilesTheRun(SplitOut[i])

\* C8 witness: a run of 4 values was split into its 7 partitions
C8_Witness == IsSome(s_out) /\ RunLength = 4 /\ Len(SplitOut) = 7

\* ------------------------------------------------ claims on conservation
\* how many runs of `runs` cover the tile (c, v)
Covering(runs, c, v) ==
  Cardinality({i \in 1..Len(runs) :
                 /\ runs[i].color = c
                 /\ runs[i].start <= v /\ v <= runs[i].end})

\* every value some run of `runs` covers
Values(runs) == UNION {runs[i].start..runs[i].end : i \in 1..Len(runs)}

\* the coverage of new_runs is that of old_runs plus the tiles of `added`
CoverPlus(old_runs, added, new_runs) ==
  \A c \in Colors :
    \A v \in Values(old_runs) \cup Values(new_runs)
              \cup {added[i].value : i \in 1..Len(added)} :
      Covering(new_runs, c, v) = Covering(old_runs, c, v) + Count(added, Tile(c, v))

RECURSIVE PlacementsConserve(_, _, _, _)
\* one successful place_tile: groups unchanged, coverage grown by the tile
StepConserves(b, placed, k, final, new_board) ==
  /\ IsSome(new_board)
  /\ Unwrap(new_board).groups = b.groups
  /\ CoverPlus(b.runs, <<placed[k]>>, Unwrap(new_board).runs)
  /\ PlacementsConserve(Unwrap(new_board), placed, k + 1, final)

\* the placements of placed[k..] from board b conserve and end in `final`
PlacementsConserve(b, placed, k, final) ==
  IF k > Len(placed) THEN b = final
  ELSE StepConserves(b, placed, k, final, place_tile(b, placed[k]))

\* C11: every successful place_tile of an attempt (direct extension or
\* split-then-extend) returns a board with the same groups whose coverage is
\* that of the board before plus exactly the placed tile; compress_runs leaves
\* the coverage of the attempt's runs unchanged; the board place_tiles_best
\* returns has the groups of the input board and covers exactly the tiles of
\* the input board plus the tiles in placed.
C11_TileConservation ==
  /\ pc = "judge" =>
       /\ PlacementsConserve(board, Current.placed_tiles, 1, Current.attempt_board)
       /\ CoverPlus(Current.attempt_board.runs, <<>>,
                    compress_runs(Current.attempt_board.runs))
  /\ Returned =>
       /\ ResultBoard.groups = board.groups
       /\ CoverPlus(board.runs, ResultPlaced, ResultBoard.runs)

\* C11 witness: a result with a tile placed by a split (some tile is covered by
\* two runs of the returned board) whose runs were merged by compress_runs
C11_Witness ==
  /\ Returned /\ ResultPlaced # <<>>
  /\ Len(ResultBoard.runs) < Len(attempts[FirstBest].attempt_board.runs)
  /\ \E c \in Colors : \E v \in Values(ResultBoard.runs) :
       Covering(ResultBoard.runs, c, v) >= 2

====
